---- MODULE Spec2Model ----
(***************************************************************************)
(* Model of the funding-rate crawler (src/src/index.ts).                   *)
(*                                                                         *)
(* One task per market runs crawlFundingRates: it reads the stored file,   *)
(* derives the resume timestamp, drives the exchange's crawl function      *)
(* (one HTTP response per step) inside the retry loop, merges the result   *)
(* with the stored history and writes the file.  The top-level function    *)
(* asks for the market list of every exchange, launches the tasks of each  *)
(* list and joins everything with Promise.all.  The workflow               *)
(* (src/unnamed/part_000) runs the program on a checkout of the repository *)
(* and pushes the files the process left.                                  *)
(*                                                                         *)
(* m identifies one call crawlFundingRates(market): the task of a market   *)
(* in the process of one workflow run.                                     *)
(*                                                                         *)
(* Records keep the two fields the code computes with: fundingTime and     *)
(* fundingRate.  exchange, pair and rawPair are the same for every record  *)
(* of a market, and fundingTimeStr is never read.                          *)
(*                                                                         *)
(* Times are epoch milliseconds counted from 1568102400000                 *)
(* (2019-09-10T08:00:00Z, index.ts:278), because TLC's integers are 32     *)
(* bits wide; the code only adds to and compares times, so the shift       *)
(* changes no outcome.  Every time is a valid instant, for which           *)
(* new Date(t).getTime() is t.                                             *)
(*                                                                         *)
(* Funding rates are never computed with; a rate is written as the text    *)
(* of the number, and "NaN" is the float NaN.                              *)
(***************************************************************************)
EXTENDS Integers, Sequences, FiniteSets, TLC

VARIABLES
  market,               \* m -> the Market descriptor the provider returned
  source,               \* m -> the response elements the exchange holds, in its order
  down,                 \* m -> TRUE when the market's source fails every request
  task,                 \* m -> the workflow run that makes the call and the path it stores at
  repo,                 \* path -> content of data/<exchange>/<pair>.json on the pushed branch
  lists,                \* run -> exchange -> state of the promise fetchMarkets(exchange, 'Swap')
  step,                 \* run -> the workflow step the run is at
  file,                 \* m -> content of data/<exchange>/<pair>.json in the checkout of the run
  pc,                   \* m -> position of the task crawlFundingRates(m)
  fundingRatesHistory,  \* m -> index.ts:273
  startTime,            \* m -> index.ts:276
  cursor,               \* m -> the crawl function's startTime parameter
  pageIndex,            \* m -> index.ts:185
  result,               \* m -> the crawl function's accumulator
  pages,                \* m -> lengths of the pages received in this attempt
  fundingRates,         \* m -> index.ts:305
  failures,             \* m -> failed attempts of this run at a source that is up
  received,             \* m -> records the responses of this attempt carried
  discarded             \* m -> times of the records the failed attempts of this run had accumulated

vars == <<market, source, down, task, repo, lists, step, file, pc, fundingRatesHistory, startTime, cursor,
          pageIndex, result, pages, fundingRates, failures, received,
          discarded>>

----------------------------------------------------------------------------
(* Bounds *)

\* pages one attempt may receive before the source runs dry
MaxPages == 2
\* failed attempts of one market in one run whose source is up
MaxFailures == 1
\* records of the OKEx history response
MaxOKExHistory == 2
\* markets of the fan-out specification
FanMarkets == 2
\* records an exchange holds in the steady-source specification
MaxSource == 3
\* stand-ins for the page sizes 1000 (index.ts:138), 50 (index.ts:195)
\* and 500 (index.ts:250)
BinanceLimit == 2
HuobiLimit == 2
BitMEXLimit == 2

\* funding times (ms from the default start) and funding-rate texts the
\* sources can report: the OKEx source three times, the latest of them with
\* either of two rates, so that two copies of a record can differ; the
\* paginated sources two times and one rate
Times == {0, 1000, 2000}
RevisedTimes == {2000}
RawRates == {"0.0001", "0.0002"}
PagedTimes == {0, 1000}
OneRawRate == {"0.0001"}
\* the Huobi source can also report, for the later time, a text that is no
\* number
UnparsedTimes == {1000}
UnparsedRates == {"n/a"}
\* the smaller domain of the fan-out specification
FanTimes == {0}
\* the funding times of the steady-source specification: less than a second,
\* a second, an hour and two hours after the default start
SourceTimes == {0, 500, 1000, 3600000, 7200000}

----------------------------------------------------------------------------
(* Program constants *)

SWAP_EXCHANGES == {"Binance", "BitMEX", "Huobi", "OKEx"}
DefaultStartTime == 0
ResumeStep == 1000
BinanceStep == 1000
BitMEXStep == 3600000

NaN == "NaN"

----------------------------------------------------------------------------
(* Values *)

\* one element of a response body: the time and the rate text it reports
RawItems(T, R) == [time : T, rate : R]

\* response bodies of at most n elements
RawPages(items, n) == UNION {[1..k -> items] : k \in 0..n}

\* parseFloat: the number a text starts with, NaN when it starts with none
ParseFloat(s) == IF s \in {"0.0001", "0.0002"} THEN s ELSE NaN

FundingRate(t, r) == [fundingTime |-> t, fundingRate |-> r]

\* the normalisation of one response element, per exchange
BinanceRecord(x) == FundingRate(x.time, ParseFloat(x.rate))
HuobiRecord(x) == FundingRate(x.time, ParseFloat(x.rate))
OKExRecord(x) == FundingRate(x.time, ParseFloat(x.rate))
\* BitMEX reports the rate as a JSON value and the code stores it as it is
BitMEXRecord(x) == FundingRate(x.time, x.rate)

\* the record arrays the one-request functions return (index.ts:112-120,
\* 166-174, 67-75, 224-232)
BinanceOneshot(p) == [i \in 1..Len(p) |-> BinanceRecord(p[i])]
HuobiOneshot(p) == [i \in 1..Len(p) |-> HuobiRecord(p[i])]
OKExHistoryRecords(p) == [i \in 1..Len(p) |-> OKExRecord(p[i])]
BitMEXOneshot(p) == [i \in 1..Len(p) |-> BitMEXRecord(p[i])]

Range(s) == {s[i] : i \in 1..Len(s)}

Last(s) == s[Len(s)]

\* the elements of s at the indices in I, in the order of s
Pick(s, I) ==
  [k \in 1..Cardinality(I) |->
     s[CHOOSE i \in I : Cardinality({j \in I : j <= i}) = k]]

\* Array.prototype.filter, for a test that holds of the elements in K
Filter(s, K) == Pick(s, {i \in 1..Len(s) : s[i] \in K})

\* Array.prototype.sort with the comparator x.fundingTime - y.fundingTime,
\* and _.sortBy(s, 'fundingTime'): ascending and stable, so an element comes
\* after the ones with a smaller fundingTime and the earlier ones with the same
SortByTime(s) ==
  LET Before(i) == {j \in 1..Len(s) :
                      \/ s[j].fundingTime < s[i].fundingTime
                      \/ s[j].fundingTime = s[i].fundingTime /\ j < i}
  IN  [k \in 1..Len(s) |->
         s[CHOOSE i \in 1..Len(s) : Cardinality(Before(i)) = k - 1]]

\* a uniqBy that keeps the last record of every fundingTime instead
UniqByTimeLast(s) ==
  Pick(s, {i \in 1..Len(s) :
             \A j \in i + 1..Len(s) : s[j].fundingTime # s[i].fundingTime})

\* _.uniqBy(s, 'fundingTime'): the first record of every fundingTime, in order
UniqByTime(s) ==
  Pick(s, {i \in 1..Len(s) :
             \A j \in 1..i - 1 : s[j].fundingTime # s[i].fundingTime})

\* a merge that leaves out the sort, and one that leaves out the uniqBy
MergeUnsorted(history, fresh) == UniqByTime(history \o fresh)
MergeKeepsDuplicates(history, fresh) == SortByTime(history \o fresh)
\* a merge that puts the fresh records first
MergeFreshFirst(history, fresh) == SortByTime(UniqByTime(fresh \o history))

\* _.sortBy(_.uniqBy(history.concat(fresh), 'fundingTime'), 'fundingTime')
Merge(history, fresh) == SortByTime(UniqByTime(history \o fresh))

\* JSON.stringify writes a NaN number as null
JSONStringify(s) ==
  [exists |-> TRUE, parses |-> TRUE,
   value |-> [i \in 1..Len(s) |->
                IF s[i].fundingRate = NaN
                THEN [s[i] EXCEPT !.fundingRate = "null"]
                ELSE s[i]]]

\* no file, and a file whose text JSON.parse rejects
Absent == [exists |-> FALSE, parses |-> FALSE, value |-> <<>>]
Garbage == [exists |-> TRUE, parses |-> FALSE, value |-> <<>>]

IsPrefix(s, t) == Len(s) <= Len(t) /\ \A i \in 1..Len(s) : s[i] = t[i]

IsSorted(s) == \A i \in 1..Len(s) - 1 : s[i].fundingTime <= s[i + 1].fundingTime
NoDuplicateTime(s) ==
  \A i, j \in 1..Len(s) : i # j => s[i].fundingTime # s[j].fundingTime

----------------------------------------------------------------------------
(* Initial state *)

Markets == DOMAIN market
Runs == DOMAIN step
Paths == DOMAIN repo

\* the calls crawlFundingRates of the process of run r
TasksOf(r) == {m \in Markets : task[m].run = r}

\* what the market-metadata provider can return for the listing exchange:
\* a swap market of that exchange, or a descriptor with another type or an
\* exchange name the switch of crawlFundingRates does not know
MarketDescriptors ==
  {d \in [listing : SWAP_EXCHANGES,
          exchange : SWAP_EXCHANGES \cup {"Other"},
          type : {"Swap", "Spot"}] :
     d.exchange \in {d.listing, "Other"}}

\* R workflow runs that have checked out the repository and started the
\* program, each over the same n markets with one of the lists in M; a source
\* is permanently down as B allows, a file of the repository is as F allows
\* and the exchange holds what S allows.  No fetchMarkets call has been
\* answered.
InitWith(R, n, M, B, F, S) ==
  /\ task = [m \in 1..R * n |->
               [run |-> ((m - 1) \div n) + 1, path |-> ((m - 1) % n) + 1]]
  /\ \E l \in M : market = [m \in 1..R * n |-> l[task[m].path]]
  /\ \E s \in [1..n -> S] : source = [m \in 1..R * n |-> s[task[m].path]]
  /\ \E d \in [1..n -> B] : down = [m \in 1..R * n |-> d[task[m].path]]
  /\ repo \in [1..n -> F]
  /\ lists = [r \in 1..R |-> [e \in SWAP_EXCHANGES |-> "pending"]]
  /\ step = [r \in 1..R |-> "retrieve"]
  /\ file = [m \in 1..R * n |-> repo[task[m].path]]
  /\ pc = [m \in 1..R * n |-> "idle"]
  /\ fundingRatesHistory = [m \in 1..R * n |-> <<>>]
  /\ startTime = [m \in 1..R * n |-> DefaultStartTime]
  /\ cursor = [m \in 1..R * n |-> DefaultStartTime]
  /\ pageIndex = [m \in 1..R * n |-> 1]
  /\ result = [m \in 1..R * n |-> <<>>]
  /\ pages = [m \in 1..R * n |-> <<>>]
  /\ fundingRates = [m \in 1..R * n |-> <<>>]
  /\ failures = [m \in 1..R * n |-> 0]
  /\ received = [m \in 1..R * n |-> {}]
  /\ discarded = [m \in 1..R * n |-> {}]

----------------------------------------------------------------------------
(* crawlFundingRates up to its first request (index.ts:257-305) *)

\* the history read from the stored file (index.ts:273-275)
ReadHistory(m) == IF file[m].exists THEN file[m].value ELSE <<>>

\* a resume index that applies the OKEx rule to every exchange, and one that
\* applies it to none
ResumeIndexSecondLast(m, history) == Len(history) - 1
ResumeIndexLast(m, history) == Len(history)

\* index of the record the resume timestamp is taken from (index.ts:280-283),
\* counted from 1
ResumeIndex(m, history) ==
  Len(history) + 1 - (IF market[m].exchange = "OKEx" THEN 2 ELSE 1)

\* the resume timestamp (index.ts:276-284)
ResumeTime(m, history) ==
  IF Len(history) <= 0
  THEN DefaultStartTime
  ELSE history[ResumeIndex(m, history)].fundingTime + ResumeStep

\* TRUE when the synchronous part of crawlFundingRates throws: the assertion
\* on the market type, the second JSON.parse, the read of fundingTime of an
\* element that does not exist, or the default branch of the switch
StartThrows(m) ==
  \/ market[m].type # "Swap"
  \/ file[m].exists /\ ~file[m].parses
  \/ LET history == ReadHistory(m)
     IN  Len(history) > 0 /\ ResumeIndex(m, history) < 1
  \/ market[m].exchange \notin SWAP_EXCHANGES

\* an accumulator that outlives the attempt
AttemptResultKept(m) == result[m]

\* the accumulator a crawl function starts an attempt with
\* (index.ts:82, 128, 182, 240)
AttemptResult(m) == <<>>

\* the markets a call crawlFundingRates(m) of this step starts
Started(S) == {m \in S : ~StartThrows(m)}

\* fetchMarkets(e, 'Swap') of the process of run r resolves and
\* crawlFundingRates is called for each market of the list, which can be
\* empty; each call runs to its first request or throws (index.ts:332-334)
Launch(r, e) ==
  LET S == {m \in TasksOf(r) : market[m].listing = e}
  IN  /\ step[r] = "retrieve"
      /\ lists[r][e] = "pending"
      /\ lists' = [lists EXCEPT ![r][e] = "resolved"]
      /\ pc' = [m \in Markets |->
                  IF m \in S
                  THEN IF StartThrows(m) THEN "rejected" ELSE "fetching"
                  ELSE pc[m]]
      /\ fundingRatesHistory' =
           [m \in Markets |->
              IF m \in Started(S) THEN ReadHistory(m) ELSE fundingRatesHistory[m]]
      /\ startTime' =
           [m \in Markets |->
              IF m \in Started(S) THEN ResumeTime(m, ReadHistory(m)) ELSE startTime[m]]
      /\ cursor' =
           [m \in Markets |->
              IF m \in Started(S) THEN ResumeTime(m, ReadHistory(m)) ELSE cursor[m]]
      /\ result' =
           [m \in Markets |-> IF m \in Started(S) THEN AttemptResult(m) ELSE result[m]]
      /\ UNCHANGED <<market, source, down, task, repo, step, file, pageIndex,
                     pages, fundingRates, failures, received, discarded>>

\* fetchMarkets(e, 'Swap') of the process of run r rejects: the callback of
\* the exchange ends at its await and calls crawlFundingRates for no market
\* (index.ts:332)
FetchMarketsFails(r, e) ==
  /\ step[r] = "retrieve"
  /\ lists[r][e] = "pending"
  /\ lists' = [lists EXCEPT ![r][e] = "rejected"]
  /\ UNCHANGED <<market, source, down, task, repo, step, file, pc,
                 fundingRatesHistory, startTime, cursor, pageIndex, result, pages,
                 fundingRates, failures, received, discarded>>

----------------------------------------------------------------------------
(* The retry loop and the end of crawlFundingRates (index.ts:305-326) *)

\* a response arrived and the crawl function asks for another page
Continue(m, res, cur, idx, n, recs) ==
  /\ result' = [result EXCEPT ![m] = res]
  /\ cursor' = [cursor EXCEPT ![m] = cur]
  /\ pageIndex' = [pageIndex EXCEPT ![m] = idx]
  /\ pages' = [pages EXCEPT ![m] = Append(@, n)]
  /\ received' = [received EXCEPT ![m] = @ \cup recs]
  /\ UNCHANGED <<market, source, down, task, repo, lists, step, file, pc, fundingRatesHistory, startTime,
                 fundingRates, failures, discarded>>

\* the crawl function returns tmp: the loop ends, the history and tmp are
\* merged and the file is written (index.ts:316-326)
Finish(m, tmp, n, recs) ==
  /\ fundingRates' = [fundingRates EXCEPT ![m] = tmp]
  /\ \E allFundingRates \in {Merge(fundingRatesHistory[m], tmp)} :
       file' = [file EXCEPT ![m] = JSONStringify(allFundingRates)]
  /\ pc' = [pc EXCEPT ![m] = "done"]
  /\ result' = [result EXCEPT ![m] = <<>>]
  /\ cursor' = [cursor EXCEPT ![m] = startTime[m]]
  /\ pageIndex' = [pageIndex EXCEPT ![m] = 1]
  /\ pages' = [pages EXCEPT ![m] = Append(@, n)]
  /\ received' = [received EXCEPT ![m] = @ \cup recs]
  /\ UNCHANGED <<market, source, down, task, repo, lists, step, fundingRatesHistory, startTime, failures,
                 discarded>>

\* a loop without the catch: the failed request ends the task
RequestFailsThrows(m) ==
  /\ pc[m] = "fetching"
  /\ pc' = [pc EXCEPT ![m] = "rejected"]
  /\ UNCHANGED <<market, source, down, task, repo, lists, step, file, fundingRatesHistory, startTime, cursor,
                 pageIndex, result, pages, fundingRates, received, discarded>>

\* a request of the attempt fails (no response, a status other than 200, a
\* body the code cannot read): crawlFunc rejects, the loop logs the error and
\* waits 5 seconds (index.ts:309-314)
RequestFails(m) ==
  /\ pc[m] = "fetching"
  /\ pc' = [pc EXCEPT ![m] = "delay"]
  /\ discarded' = [discarded EXCEPT ![m] =
                      @ \cup {r.fundingTime : r \in Range(result[m])}]
  /\ UNCHANGED <<market, source, down, task, repo, lists, step, file, fundingRatesHistory, startTime, cursor,
                 pageIndex, result, pages, fundingRates, received>>

\* a request fails although the source is up
TransientFailure(m) ==
  /\ ~down[m]
  /\ failures[m] < MaxFailures
  /\ RequestFails(m)
  /\ failures' = [failures EXCEPT ![m] = @ + 1]

\* a request to a source that is down fails
SourceDown(m) ==
  /\ down[m]
  /\ RequestFails(m)
  /\ UNCHANGED failures

\* a retry that goes on from the page the failed attempt had reached
RetryDelayResumes(m) ==
  /\ pc[m] = "delay"
  /\ pc' = [pc EXCEPT ![m] = "fetching"]
  /\ UNCHANGED <<market, source, down, task, repo, lists, step, file, fundingRatesHistory, startTime, cursor,
                 pageIndex, result, pages, fundingRates, failures, received,
                 discarded>>

\* the 5 seconds are over: the loop calls crawlFunc(market, startTime) again
\* (index.ts:307-309)
RetryDelay(m) ==
  /\ pc[m] = "delay"
  /\ pc' = [pc EXCEPT ![m] = "fetching"]
  /\ result' = [result EXCEPT ![m] = AttemptResult(m)]
  /\ cursor' = [cursor EXCEPT ![m] = startTime[m]]
  /\ pageIndex' = [pageIndex EXCEPT ![m] = 1]
  /\ pages' = [pages EXCEPT ![m] = <<>>]
  /\ received' = [received EXCEPT ![m] = {}]
  /\ UNCHANGED <<market, source, down, task, repo, lists, step, file, fundingRatesHistory, startTime,
                 fundingRates, failures, discarded>>

----------------------------------------------------------------------------
(* The crawl functions, one response per step *)

\* a loop condition that stops at a page of exactly the page size
BinanceMoreStrict(page) == Len(page) > BinanceLimit

\* the loop conditions (index.ts:138, 195, 250)
BinanceMore(page) == Len(page) >= BinanceLimit
\* a Huobi loop condition that stops at a page of exactly the page size
HuobiMoreStrict(page) == Len(page) > HuobiLimit
HuobiMore(page) == Len(page) >= HuobiLimit
BitMEXMore(page) == Len(page) >= BitMEXLimit

\* TRUE when the source may answer the pending request with a page of n records
SourceAllows(m, n, limit) ==
  /\ ~down[m]
  /\ n <= limit
  /\ Len(pages[m]) + 1 >= MaxPages => n < limit

\* crawlBinanceFundingRate (index.ts:124-143)
BinancePage(m, p) ==
  /\ pc[m] = "fetching"
  /\ market[m].exchange = "Binance"
  /\ SourceAllows(m, Len(p), BinanceLimit)
  /\ \E page \in {BinanceOneshot(p)} :
       LET res == IF Len(page) > 0 THEN result[m] \o page ELSE result[m]
           cur == IF Len(page) > 0
                  THEN Last(page).fundingTime + BinanceStep
                  ELSE cursor[m]
       IN  IF BinanceMore(page)
           THEN Continue(m, res, cur, pageIndex[m], Len(p), Range(page))
           ELSE \E sorted \in {SortByTime(res)} :
                  Finish(m, sorted, Len(p), Range(page))

\* crawlBitMEXFundingRate (index.ts:236-255)
BitMEXPage(m, p) ==
  /\ pc[m] = "fetching"
  /\ market[m].exchange = "BitMEX"
  /\ SourceAllows(m, Len(p), BitMEXLimit)
  /\ \E page \in {BitMEXOneshot(p)} :
       LET res == IF Len(page) > 0 THEN result[m] \o page ELSE result[m]
           cur == IF Len(page) > 0
                  THEN Last(page).fundingTime + BitMEXStep
                  ELSE cursor[m]
       IN  IF BitMEXMore(page)
           THEN Continue(m, res, cur, pageIndex[m], Len(p), Range(page))
           ELSE \E sorted \in {SortByTime(res)} :
                  Finish(m, sorted, Len(p), Range(page))

\* a filter that lets the record at lastFundingTime through
HuobiKeepsAtOrAfter(m, r) == r.fundingTime >= cursor[m]

\* the filter of crawlHuobiFundingRate (index.ts:189-191); the parameter
\* lastFundingTime is the resume timestamp
HuobiKeeps(m, r) == r.fundingTime > cursor[m]

\* crawlHuobiFundingRate (index.ts:178-200)
HuobiPage(m, p) ==
  /\ pc[m] = "fetching"
  /\ market[m].exchange = "Huobi"
  /\ SourceAllows(m, Len(p), HuobiLimit)
  /\ \E raw \in {HuobiOneshot(p)} :
     \E page \in {Filter(raw, {r \in Range(raw) : HuobiKeeps(m, r)})} :
       LET res == IF Len(page) > 0 THEN result[m] \o page ELSE result[m]
       IN  IF HuobiMore(page)
           THEN Continue(m, res, cursor[m], pageIndex[m] + 1, Len(p), Range(raw))
           ELSE \E sorted \in {SortByTime(res)} :
                  Finish(m, sorted, Len(p), Range(raw))

\* crawlOKExFundingRate, the history response (index.ts:84-85)
OKExHistory(m, p) ==
  /\ pc[m] = "fetching"
  /\ market[m].exchange = "OKEx"
  /\ ~down[m]
  /\ Len(pages[m]) = 0
  /\ Len(p) <= MaxOKExHistory
  /\ \E page \in {OKExHistoryRecords(p)} :
       Continue(m, result[m] \o page, cursor[m], pageIndex[m], Len(p), Range(page))

\* a filter that drops the record at the resume timestamp
OKExKeepsStrict(m, r) == r.fundingTime > cursor[m]

\* the filter of crawlOKExFundingRate (index.ts:91)
OKExKeeps(m, r) == r.fundingTime >= cursor[m]

\* crawlOKExFundingRate, the current-rate response (index.ts:87-92)
OKExCurrent(m, x) ==
  /\ pc[m] = "fetching"
  /\ market[m].exchange = "OKEx"
  /\ ~down[m]
  /\ Len(pages[m]) = 1
  /\ \E res \in {Append(result[m], OKExRecord(x))} :
     \E kept \in {Filter(res, {r \in Range(res) : OKExKeeps(m, r)})} :
     \E sorted \in {SortByTime(kept)} :
       Finish(m, sorted, 1, {OKExRecord(x)})

----------------------------------------------------------------------------
(* The top level (index.ts:329-337) and the workflow (part_000) *)

\* the promise of the callback of exchange e (index.ts:331-335): it waits for
\* fetchMarkets and then for the tasks of the list; it rejects when
\* fetchMarkets rejects and with the first rejected task
ExchangePromise(r, e) ==
  LET S == {m \in TasksOf(r) : market[m].listing = e}
  IN  IF lists[r][e] = "rejected" THEN "rejected"
      ELSE IF lists[r][e] = "pending" THEN "pending"
      ELSE IF \E m \in S : pc[m] = "rejected" THEN "rejected"
      ELSE IF \A m \in S : pc[m] = "done" THEN "resolved"
      ELSE "pending"

\* the promise of the top-level function of the process of run r:
\* Promise.all over the four callbacks rejects with the first that rejects
\* and resolves when every one has resolved (index.ts:330-336)
MainPromise(r) ==
  IF \E e \in SWAP_EXCHANGES : ExchangePromise(r, e) = "rejected" THEN "rejected"
  ELSE IF \A e \in SWAP_EXCHANGES : ExchangePromise(r, e) = "resolved" THEN "resolved"
  ELSE "pending"

\* node exits when nothing is left to wait for: every fetchMarkets call is
\* settled and no task is in its retry loop.  A rejected top-level promise
\* is an unhandled rejection, which Node 14 (part_000:17) only warns about,
\* so the step 'Retrieve funding rates' succeeds either way.
ProcessEnded(r) ==
  /\ \A e \in SWAP_EXCHANGES : lists[r][e] # "pending"
  /\ \A m \in TasksOf(r) : pc[m] \in {"idle", "done", "rejected"}

\* the file of the checkout of run r at path p
CheckedOut(r, p) == file[CHOOSE m \in TasksOf(r) : task[m].path = p]

\* the runner of run r is gone: no process, no checkout
RunnerGone(r) ==
  /\ step' = [step EXCEPT ![r] = "none"]
  /\ lists' = [lists EXCEPT ![r] = [e \in SWAP_EXCHANGES |-> "pending"]]
  /\ file' = [m \in Markets |-> IF m \in TasksOf(r) THEN Absent ELSE file[m]]
  /\ pc' = [m \in Markets |-> IF m \in TasksOf(r) THEN "idle" ELSE pc[m]]
  /\ fundingRatesHistory' =
       [m \in Markets |-> IF m \in TasksOf(r) THEN <<>> ELSE fundingRatesHistory[m]]
  /\ startTime' =
       [m \in Markets |-> IF m \in TasksOf(r) THEN DefaultStartTime ELSE startTime[m]]
  /\ cursor' =
       [m \in Markets |-> IF m \in TasksOf(r) THEN DefaultStartTime ELSE cursor[m]]
  /\ pageIndex' = [m \in Markets |-> IF m \in TasksOf(r) THEN 1 ELSE pageIndex[m]]
  /\ result' = [m \in Markets |-> IF m \in TasksOf(r) THEN <<>> ELSE result[m]]
  /\ pages' = [m \in Markets |-> IF m \in TasksOf(r) THEN <<>> ELSE pages[m]]
  /\ fundingRates' =
       [m \in Markets |-> IF m \in TasksOf(r) THEN <<>> ELSE fundingRates[m]]
  /\ failures' = [m \in Markets |-> IF m \in TasksOf(r) THEN 0 ELSE failures[m]]
  /\ received' = [m \in Markets |-> IF m \in TasksOf(r) THEN {} ELSE received[m]]
  /\ discarded' = [m \in Markets |-> IF m \in TasksOf(r) THEN {} ELSE discarded[m]]

\* TRUE when the checkout of run r has a directory data/: a file under it
\* was checked out or written, or a call crawlFundingRates passed the
\* assertion on the market type and made the directory of its exchange
\* (index.ts:258-263).  Without it git add ./data/ (part_000:30) matches
\* nothing and the step 'Commit files' fails.
DataDir(r) ==
  \E m \in TasksOf(r) :
    file[m].exists \/ (pc[m] # "idle" /\ market[m].type = "Swap")

\* the steps 'Commit files' and 'Push changes' (part_000:26-37) of run r,
\* after the process has ended and with a directory data/ to add: the files
\* under data/ of its checkout are committed and the branch is pushed with
\* force, which replaces whatever another run has pushed since the
\* checkout; the run is over
PushChanges(r) ==
  /\ step[r] = "retrieve"
  /\ ProcessEnded(r)
  /\ DataDir(r)
  /\ repo' = [p \in Paths |-> CheckedOut(r, p)]
  /\ RunnerGone(r)
  /\ UNCHANGED <<market, source, down, task>>

\* run r is cancelled or one of its steps fails, 'Commit files' without a
\* directory data/ included: the steps after it are skipped and nothing is
\* pushed
RunFails(r) ==
  /\ step[r] = "retrieve"
  /\ RunnerGone(r)
  /\ UNCHANGED <<market, source, down, task, repo>>

\* the schedule or a push (part_000:3-7) starts a workflow run, whatever the
\* other runs are doing: it checks out the branch as it is pushed and starts
\* the program, which calls fetchMarkets for every exchange
\* (part_000:14-24, index.ts:329-332)
NextRun(r) ==
  /\ step[r] = "none"
  /\ step' = [step EXCEPT ![r] = "retrieve"]
  /\ file' = [m \in Markets |->
                IF m \in TasksOf(r) THEN repo[task[m].path] ELSE file[m]]
  /\ lists' = [lists EXCEPT ![r] = [e \in SWAP_EXCHANGES |-> "pending"]]
  /\ pc' = [m \in Markets |-> IF m \in TasksOf(r) THEN "idle" ELSE pc[m]]
  /\ UNCHANGED <<market, source, down, task, repo, fundingRatesHistory,
                 startTime, cursor, pageIndex, result, pages, fundingRates,
                 failures, received, discarded>>

----------------------------------------------------------------------------
(* Specifications *)

\* the response elements of the sources
Items == RawItems(PagedTimes, OneRawRate)
HuobiItems == Items \cup RawItems(UnparsedTimes, UnparsedRates)
OKExItems == RawItems(Times, OneRawRate) \cup RawItems(RevisedTimes, RawRates)
\* what the OKEx history endpoint reports, the settled rate of the latest
\* time, and what the current-rate endpoint reports, the estimate
OKExSettled ==
  RawItems(Times \ RevisedTimes, OneRawRate)
    \cup RawItems(RevisedTimes, RawRates \ OneRawRate)
OKExEstimates == RawItems(Times, OneRawRate)
FanItems == RawItems(FanTimes, OneRawRate)

\* the response bodies of the specifications below
BinanceBodies == RawPages(Items, BinanceLimit)
HuobiBodies == RawPages(HuobiItems, HuobiLimit)
OKExBodies == RawPages(OKExSettled, MaxOKExHistory)

\* one market of any descriptor, run after run from no file or from a file
\* that does not parse; the market provider answers every call, in any
\* order.  The Binance source reports two funding times in any order, the
\* other sources one.
Init ==
  InitWith(1, 1, [1..1 -> MarketDescriptors], BOOLEAN, {Absent, Garbage}, {<<>>})

Next ==
  \/ \E r \in Runs : \E e \in SWAP_EXCHANGES : Launch(r, e)
  \/ \E m \in Markets : \E p \in BinanceBodies : BinancePage(m, p)
  \/ \E m \in Markets : \E p \in RawPages(FanItems, BitMEXLimit) : BitMEXPage(m, p)
  \/ \E m \in Markets : \E p \in RawPages(FanItems, HuobiLimit) : HuobiPage(m, p)
  \/ \E m \in Markets : \E p \in RawPages(FanItems, MaxOKExHistory) : OKExHistory(m, p)
  \/ \E m \in Markets : \E x \in FanItems : OKExCurrent(m, x)
  \/ \E m \in Markets : TransientFailure(m)
  \/ \E m \in Markets : SourceDown(m)
  \/ \E m \in Markets : RetryDelay(m)
  \/ \E r \in Runs : PushChanges(r)
  \/ \E r \in Runs : RunFails(r)
  \/ \E r \in Runs : NextRun(r)

Spec == Init /\ [][Next]_vars

\* one swap market of a known exchange
SwapLists ==
  {l \in [1..1 -> MarketDescriptors] :
     l[1].type = "Swap" /\ l[1].exchange = l[1].listing}

\* one swap market, run after run from no file, the source up.  The Huobi
\* and OKEx sources, whose crawl functions filter what they receive, report
\* several funding times in any order, the other sources one.
FilterInit == InitWith(1, 1, SwapLists, {FALSE}, {Absent}, {<<>>})

FilterNext ==
  \/ \E r \in Runs : \E e \in SWAP_EXCHANGES : Launch(r, e)
  \/ \E m \in Markets : \E p \in RawPages(FanItems, BinanceLimit) : BinancePage(m, p)
  \/ \E m \in Markets : \E p \in RawPages(FanItems, BitMEXLimit) : BitMEXPage(m, p)
  \/ \E m \in Markets : \E p \in HuobiBodies : HuobiPage(m, p)
  \/ \E m \in Markets : \E p \in OKExBodies : OKExHistory(m, p)
  \/ \E m \in Markets : \E x \in OKExEstimates : OKExCurrent(m, x)
  \/ \E m \in Markets : TransientFailure(m)
  \/ \E m \in Markets : RetryDelay(m)
  \/ \E r \in Runs : PushChanges(r)
  \/ \E r \in Runs : RunFails(r)
  \/ \E r \in Runs : NextRun(r)

FilterSpec == FilterInit /\ [][FilterNext]_vars

\* the market lists of the fan-out specification: swap markets of two
\* exchanges, Binance and BitMEX or Huobi and OKEx, the markets with an odd
\* number of the first and the ones with an even number of the second
FanLists ==
  {l \in [1..FanMarkets -> MarketDescriptors] :
     \E pair \in {<<"Binance", "BitMEX">>, <<"Huobi", "OKEx">>} :
       \A m \in 1..FanMarkets :
         /\ l[m].type = "Swap"
         /\ l[m].exchange = l[m].listing
         /\ l[m].exchange = pair[2 - (m % 2)]}

\* one run over several markets side by side: a source answers every
\* request or none, and the responses come from a smaller domain
FanInit == InitWith(1, FanMarkets, FanLists, BOOLEAN, {Absent}, {<<>>})

\* the steps of the task of market m in the fan-out specification
FanTaskStep(m) ==
  \/ \E p \in RawPages(FanItems, BinanceLimit) : BinancePage(m, p)
  \/ \E p \in RawPages(FanItems, BitMEXLimit) : BitMEXPage(m, p)
  \/ \E p \in RawPages(FanItems, HuobiLimit) : HuobiPage(m, p)
  \/ \E p \in RawPages(FanItems, MaxOKExHistory) : OKExHistory(m, p)
  \/ \E x \in FanItems : OKExCurrent(m, x)
  \/ SourceDown(m)
  \/ RetryDelay(m)

FanNext ==
  \/ \E r \in Runs : \E e \in SWAP_EXCHANGES : Launch(r, e)
  \/ \E m \in Markets : \E p \in RawPages(FanItems, BinanceLimit) : BinancePage(m, p)
  \/ \E m \in Markets : \E p \in RawPages(FanItems, BitMEXLimit) : BitMEXPage(m, p)
  \/ \E m \in Markets : \E p \in RawPages(FanItems, HuobiLimit) : HuobiPage(m, p)
  \/ \E m \in Markets : \E p \in RawPages(FanItems, MaxOKExHistory) : OKExHistory(m, p)
  \/ \E m \in Markets : \E x \in FanItems : OKExCurrent(m, x)
  \/ \E m \in Markets : SourceDown(m)
  \/ \E m \in Markets : RetryDelay(m)

FanSpec == FanInit /\ [][FanNext]_vars

\* the event loop runs every callback that is ready: a response or a timer
\* a task waits for arrives, and so does the market list of an exchange
FairFanSpec ==
  /\ FanSpec
  /\ WF_vars(\E r \in Runs : \E e \in SWAP_EXCHANGES : Launch(r, e))
  /\ \A m \in 1..FanMarkets : WF_vars(FanTaskStep(m))

\* the market lists of the fan-out with descriptors of every kind: also a
\* type other than Swap and an exchange name the switch does not know
MixedLists ==
  {l \in [1..FanMarkets -> MarketDescriptors] :
     \A m \in 1..FanMarkets :
       l[m].listing \in (IF m % 2 = 1 THEN {"Binance", "Huobi"}
                                        ELSE {"BitMEX", "OKEx"})}

\* one run over several markets, some of which crawlFundingRates refuses
MixedInit == InitWith(1, FanMarkets, MixedLists, BOOLEAN, {Absent}, {<<>>})

\* the market provider answers in any order, and a call can fail
MixedNext ==
  \/ \E r \in Runs : \E e \in SWAP_EXCHANGES : Launch(r, e)
  \/ \E r \in Runs : \E e \in SWAP_EXCHANGES : FetchMarketsFails(r, e)
  \/ \E m \in Markets : \E p \in RawPages(FanItems, BinanceLimit) : BinancePage(m, p)
  \/ \E m \in Markets : \E p \in RawPages(FanItems, BitMEXLimit) : BitMEXPage(m, p)
  \/ \E m \in Markets : \E p \in RawPages(FanItems, HuobiLimit) : HuobiPage(m, p)
  \/ \E m \in Markets : \E p \in RawPages(FanItems, MaxOKExHistory) : OKExHistory(m, p)
  \/ \E m \in Markets : \E x \in FanItems : OKExCurrent(m, x)
  \/ \E m \in Markets : SourceDown(m)
  \/ \E m \in Markets : RetryDelay(m)

MixedSpec == MixedInit /\ [][MixedNext]_vars

\* one swap market of OKEx
OverlapLists ==
  {l \in [1..1 -> MarketDescriptors] :
     l[1].type = "Swap" /\ l[1].exchange = l[1].listing
       /\ l[1].exchange = "OKEx"}

\* two workflow runs side by side, started by the schedule and by a push or
\* by two ticks of the schedule, and the runs that follow them; the source
\* is up
OverlapInit == InitWith(2, 1, OverlapLists, {FALSE}, {Absent}, {<<>>})

OverlapNext ==
  \/ \E r \in Runs : \E e \in SWAP_EXCHANGES : Launch(r, e)
  \/ \E m \in Markets : \E p \in RawPages(FanItems, MaxOKExHistory) : OKExHistory(m, p)
  \/ \E m \in Markets : \E x \in FanItems : OKExCurrent(m, x)
  \/ \E m \in Markets : TransientFailure(m)
  \/ \E m \in Markets : RetryDelay(m)
  \/ \E r \in Runs : PushChanges(r)
  \/ \E r \in Runs : RunFails(r)
  \/ \E r \in Runs : NextRun(r)

OverlapSpec == OverlapInit /\ [][OverlapNext]_vars

----------------------------------------------------------------------------
(* Exchanges that hold the same records at every request *)

\* the first n elements of s
Take(s, n) == SubSeq(s, 1, IF Len(s) < n THEN Len(s) ELSE n)

\* the answer to a request with startTime and limit (index.ts:102) or count
\* (index.ts:209-211): the first records at or after start, a page at most
ServesFrom(src, start, limit) ==
  Take(Filter(src, {x \in Range(src) : x.time >= start}), limit)

\* the answer to a request with page_index and page_size (index.ts:152)
ServesPage(src, idx, size) ==
  SubSeq(src, (idx - 1) * size + 1,
         IF Len(src) < idx * size THEN Len(src) ELSE idx * size)

\* what an exchange can hold: Binance and BitMEX records in ascending time
\* order, Huobi records in any order, OKEx the records of its history
\* endpoint followed by the record of its current-rate endpoint
AscendingSources ==
  {s \in RawPages(RawItems(SourceTimes, OneRawRate), MaxSource) :
     \A i \in 1..Len(s) - 1 : s[i].time < s[i + 1].time}
HuobiSources == RawPages(RawItems(Times, OneRawRate), MaxSource)
OKExSources == RawPages(OKExItems, MaxSource) \ {<<>>}

SourcesOf(exchange) ==
  CASE exchange = "Huobi" -> HuobiSources
    [] exchange = "OKEx" -> OKExSources
    [] OTHER -> AscendingSources

\* one market, run after run from no file, against an exchange that
\* answers every request from the same records
SteadyInit ==
  /\ InitWith(1, 1, SwapLists, {FALSE}, {Absent},
              AscendingSources \cup HuobiSources \cup OKExSources)
  /\ \A m \in Markets : source[m] \in SourcesOf(market[m].exchange)

SteadyNext ==
  \/ \E r \in Runs : \E e \in SWAP_EXCHANGES : Launch(r, e)
  \/ \E m \in Markets : \E p \in {ServesFrom(source[m], cursor[m], BinanceLimit)} : BinancePage(m, p)
  \/ \E m \in Markets : \E p \in {ServesFrom(source[m], cursor[m], BitMEXLimit)} : BitMEXPage(m, p)
  \/ \E m \in Markets : \E p \in {ServesPage(source[m], pageIndex[m], HuobiLimit)} : HuobiPage(m, p)
  \/ \E m \in Markets :
       /\ source[m] # <<>>
       /\ \E p \in {Take(source[m], Len(source[m]) - 1)} : OKExHistory(m, p)
  \/ \E m \in Markets :
       /\ source[m] # <<>>
       /\ \E x \in {Last(source[m])} : OKExCurrent(m, x)
  \/ \E m \in Markets : TransientFailure(m)
  \/ \E m \in Markets : RetryDelay(m)
  \/ \E r \in Runs : PushChanges(r)
  \/ \E r \in Runs : NextRun(r)

SteadySpec == SteadyInit /\ [][SteadyNext]_vars

----------------------------------------------------------------------------
(* Properties *)

Running == {"fetching", "delay"}
Entered == {"fetching", "delay", "done"}
TimesOf(s) == {s[i].fundingTime : i \in 1..Len(s)}

\* C1: the sequence stored for a market is sorted ascending by fundingTime
\* and holds no two records with the same fundingTime, after every run,
\* whatever the responses and however many retries.
C1_StoredSortedUnique ==
  \A m \in Markets :
    file[m].parses => IsSorted(file[m].value) /\ NoDuplicateTime(file[m].value)

\* a run with a retry that fetched records older than, equal to and newer
\* than stored ones
C1_Witness ==
  \E m \in Markets :
    /\ pc[m] = "done"
    /\ failures[m] >= 1
    /\ ~IsSorted(fundingRatesHistory[m] \o fundingRates[m])
    /\ TimesOf(fundingRatesHistory[m]) \cap TimesOf(fundingRates[m]) # {}
    /\ TimesOf(fundingRates[m]) \ TimesOf(fundingRatesHistory[m]) # {}
    /\ Len(file[m].value) >= 3

\* C2: merging the fresh batch a second time changes nothing:
\* merge(merge(h, f), f) = merge(h, f) for the history and the batch of
\* every finished crawl.
C2_MergeIdempotent ==
  \A m \in Markets :
    pc[m] = "done" =>
      LET h == fundingRatesHistory[m]
          f == fundingRates[m]
      IN  Merge(Merge(h, f), f) = Merge(h, f)

\* a batch with a repeated fundingTime merged into a stored history
C2_Witness ==
  \E m \in Markets :
    /\ pc[m] = "done"
    /\ fundingRatesHistory[m] # <<>>
    /\ ~NoDuplicateTime(fundingRates[m])
    /\ Len(Merge(fundingRatesHistory[m], fundingRates[m])) > Len(fundingRatesHistory[m])

\* C3: a fundingTime that is both stored and fetched again is stored once
\* afterwards, with the record that was stored before.
C3_HistoryCopyWins ==
  \A m \in Markets :
    pc[m] = "done" =>
      \A i \in 1..Len(fundingRatesHistory[m]) :
        LET old == fundingRatesHistory[m][i]
        IN  old.fundingTime \in TimesOf(fundingRates[m]) =>
              /\ old \in Range(file[m].value)
              /\ Cardinality({j \in 1..Len(file[m].value) :
                                file[m].value[j].fundingTime = old.fundingTime}) = 1

\* an OKEx market whose last stored record comes back with another rate
C3_Witness ==
  \E m \in Markets :
    /\ pc[m] = "done"
    /\ market[m].exchange = "OKEx"
    /\ fundingRatesHistory[m] # <<>>
    /\ \E r \in Range(fundingRates[m]) :
         /\ r.fundingTime = Last(fundingRatesHistory[m]).fundingTime
         /\ r.fundingRate # Last(fundingRatesHistory[m]).fundingRate

\* C4 as stated: for Binance, BitMEX and Huobi the resume timestamp is the
\* last stored fundingTime + 1.
C4_ResumeLastPlusOne ==
  \A m \in Markets :
    /\ market[m].exchange \in {"Binance", "BitMEX", "Huobi"}
    /\ pc[m] \in Entered
    /\ fundingRatesHistory[m] # <<>>
    => startTime[m] = Last(fundingRatesHistory[m]).fundingTime + 1

\* C4 amended: for Binance, BitMEX and Huobi the resume timestamp, which is
\* what the crawl function is called with, is the last stored fundingTime
\* + 1000 ms.
C4_ResumeLastPlusSecond ==
  \A m \in Markets :
    /\ market[m].exchange \in {"Binance", "BitMEX", "Huobi"}
    /\ pc[m] \in Entered
    /\ fundingRatesHistory[m] # <<>>
    => /\ startTime[m] = Last(fundingRatesHistory[m]).fundingTime + 1000
       /\ pc[m] = "fetching" /\ pages[m] = <<>> => cursor[m] = startTime[m]

\* a crawl of a market with two stored records was just called
C4_Witness ==
  \E m \in Markets :
    /\ market[m].exchange \in {"Binance", "BitMEX", "Huobi"}
    /\ pc[m] = "fetching"
    /\ pages[m] = <<>>
    /\ Len(fundingRatesHistory[m]) >= 2

\* C5 as stated: for OKEx with at least two stored records the resume
\* timestamp is the second-to-last fundingTime + 1.
C5_OKExResumePlusOne ==
  \A m \in Markets :
    /\ market[m].exchange = "OKEx"
    /\ pc[m] \in Entered
    /\ Len(fundingRatesHistory[m]) >= 2
    => startTime[m] =
         fundingRatesHistory[m][Len(fundingRatesHistory[m]) - 1].fundingTime + 1

\* C5 amended: for OKEx with at least two stored records the resume
\* timestamp is the second-to-last fundingTime + 1000 ms, whatever the last
\* record is.
C5_OKExResumePlusSecond ==
  \A m \in Markets :
    /\ market[m].exchange = "OKEx"
    /\ pc[m] \in Entered
    /\ Len(fundingRatesHistory[m]) >= 2
    => /\ startTime[m] =
            fundingRatesHistory[m][Len(fundingRatesHistory[m]) - 1].fundingTime + 1000
       /\ pc[m] = "fetching" /\ pages[m] = <<>> => cursor[m] = startTime[m]

\* an OKEx crawl was called on stored records the last of which is more
\* than a second after the one before
C5_Witness ==
  \E m \in Markets :
    /\ market[m].exchange = "OKEx"
    /\ pc[m] = "fetching"
    /\ pages[m] = <<>>
    /\ Len(fundingRatesHistory[m]) >= 2
    /\ startTime[m] < Last(fundingRatesHistory[m]).fundingTime

\* C6: a stored file that does not parse never ends the crawl of its market:
\* the task of a swap market of a known exchange is not rejected.
C6_ParseFailureNotFatal ==
  \A m \in Markets :
    /\ file[m].exists
    /\ ~file[m].parses
    /\ market[m].type = "Swap"
    /\ market[m].exchange \in SWAP_EXCHANGES
    => pc[m] # "rejected"

\* C7: after failed attempts and one successful attempt the file holds the
\* merge of the history with the records of the successful attempt alone,
\* and the task has resolved.
C7_OnlySuccessfulAttempt ==
  \A m \in Markets :
    pc[m] = "done" /\ failures[m] >= 1 =>
      /\ file[m] = JSONStringify(Merge(fundingRatesHistory[m], fundingRates[m]))
      /\ Range(fundingRates[m]) \subseteq received[m]
      /\ MainPromise(task[m].run) # "rejected"

\* an attempt failed after a page was accumulated, and a record of that page
\* is not in the file the later successful attempt wrote
C7_Witness ==
  \E m \in Markets :
    /\ pc[m] = "done"
    /\ failures[m] >= 1
    /\ fundingRates[m] # <<>>
    /\ discarded[m] \ TimesOf(file[m].value) # {}

\* C8: a market whose source is down stays between fetching and delay and
\* its file stays as it was, while every other market, whose source answers,
\* is called, goes on to done with its file written, and stays there.
C8_DownMarketBlocksNoOther ==
  /\ [][\A k \in 1..FanMarkets :
          down[k] /\ pc[k] \in Running =>
            pc'[k] \in Running /\ file'[k] = file[k]]_vars
  /\ \A m \in 1..FanMarkets :
       <>[](~down[m] => pc[m] = "done" /\ file[m].parses)

\* one market is done and stored while another has failed and waits again
C8_Witness ==
  \E k, m \in Markets :
    /\ down[k] /\ pc[k] = "delay" /\ file[k] = Absent
    /\ ~down[m] /\ pc[m] = "done" /\ file[m].parses

\* C9: a Binance crawl asks for another page after every full page, ends at
\* the first page that is not full, an empty one included, and returns a
\* result sorted ascending by fundingTime.
C9_BinancePagination ==
  \A m \in Markets :
    market[m].exchange = "Binance" =>
      /\ pc[m] = "fetching" =>
           \A i \in 1..Len(pages[m]) : pages[m][i] = BinanceLimit
      /\ pc[m] = "done" =>
           /\ pages[m] # <<>>
           /\ Last(pages[m]) < BinanceLimit
           /\ \A i \in 1..Len(pages[m]) - 1 : pages[m][i] = BinanceLimit
           /\ IsSorted(fundingRates[m])

\* a full page with its records out of order, then an empty page
C9_Witness ==
  \E m \in Markets :
    /\ market[m].exchange = "Binance"
    /\ pc[m] = "done"
    /\ Len(pages[m]) = 2
    /\ pages[m][1] = BinanceLimit
    /\ pages[m][2] = 0
    /\ Len(fundingRates[m]) = BinanceLimit
    /\ fundingRates[m][1].fundingTime < Last(fundingRates[m]).fundingTime

\* C10 as stated: for every exchange the result of a successful crawl is
\* sorted and holds exactly the fetched records with
\* fundingTime >= startTime.
C10_FilteredFromStart ==
  \A m \in Markets :
    pc[m] = "done" =>
      /\ IsSorted(fundingRates[m])
      /\ Range(fundingRates[m]) =
           {r \in received[m] : r.fundingTime >= startTime[m]}

\* C10 amended: for every exchange the result of a successful crawl is
\* sorted; for OKEx it holds exactly the fetched records with
\* fundingTime >= startTime, for Huobi exactly those with
\* fundingTime > startTime, for Binance and BitMEX every fetched record.
C10_CrawlResult ==
  \A m \in Markets :
    pc[m] = "done" =>
      /\ IsSorted(fundingRates[m])
      /\ Range(fundingRates[m]) =
           CASE market[m].exchange = "OKEx" ->
                  {r \in received[m] : r.fundingTime >= startTime[m]}
             [] market[m].exchange = "Huobi" ->
                  {r \in received[m] : r.fundingTime > startTime[m]}
             [] OTHER -> received[m]

\* an OKEx crawl that received a record before, one at and one after the
\* resume timestamp
C10_Witness ==
  \E m \in Markets :
    /\ pc[m] = "done"
    /\ market[m].exchange = "OKEx"
    /\ \E r \in received[m] : r.fundingTime < startTime[m]
    /\ \E r \in received[m] : r.fundingTime = startTime[m]
    /\ \E r \in received[m] : r.fundingTime > startTime[m]

\* C11: a Huobi crawl accumulates and returns no record with
\* fundingTime <= lastFundingTime (the resume timestamp it was called with),
\* on whichever page and in whichever order the records arrive.
C11_HuobiDropsSeen ==
  \A m \in Markets :
    market[m].exchange = "Huobi" =>
      /\ \A r \in Range(result[m]) : r.fundingTime > startTime[m]
      /\ pc[m] = "done" =>
           /\ \A r \in Range(fundingRates[m]) : r.fundingTime > startTime[m]
           /\ \A r \in received[m] :
                r.fundingTime > startTime[m] => r \in Range(fundingRates[m])

\* a Huobi crawl whose pages carried a record at or before the resume
\* timestamp and a later one
C11_Witness ==
  \E m \in Markets :
    /\ market[m].exchange = "Huobi"
    /\ pc[m] = "done"
    /\ \E r \in received[m] : r.fundingTime <= startTime[m]
    /\ fundingRates[m] # <<>>

\* C12 as stated: whenever a run of crawlFundingRates stores the sequence
\* of a market, the sequence it read is a prefix of the one it stores.
C12_AppendOnly ==
  [][\A m \in Markets :
       pc[m] = "fetching" /\ pc'[m] = "done" /\ file[m].parses =>
         IsPrefix(file[m].value, file'[m].value)]_vars

\* C12 amended: whenever a run of crawlFundingRates changes the stored
\* sequence of a market, every record of the sequence it read is still
\* stored, unchanged and in the same order relative to the others, and the
\* new sequence is sorted by fundingTime; for Huobi the sequence it read is
\* a prefix of the new one.
C12_RecordsKept ==
  [][\A m \in Markets :
       pc[m] = "fetching" /\ pc'[m] = "done" /\ file[m].parses
         /\ file'[m] # file[m] =>
         /\ file'[m].parses
         /\ Filter(file'[m].value, Range(file[m].value)) = file[m].value
         /\ IsSorted(file'[m].value)
         /\ market[m].exchange = "Huobi" =>
              IsPrefix(file[m].value, file'[m].value)]_vars

\* a run stored a new record in front of a record that was stored before
C12_Witness ==
  \E m \in Markets :
    /\ pc[m] = "done"
    /\ fundingRatesHistory[m] # <<>>
    /\ Range(fundingRatesHistory[m]) \subseteq Range(file[m].value)
    /\ \E r \in Range(file[m].value) \ Range(fundingRatesHistory[m]) :
         r.fundingTime < Last(fundingRatesHistory[m]).fundingTime

\* C17 as stated: a Huobi crawl requests page indices 1, 2, 3, ... in order,
\* requests the next one after every returned page of the page size and
\* stops at the first returned page that is shorter.
C17_HuobiStopsAtShortPage ==
  \A m \in Markets :
    market[m].exchange = "Huobi" =>
      /\ pc[m] = "fetching" =>
           /\ pageIndex[m] = Len(pages[m]) + 1
           /\ \A i \in 1..Len(pages[m]) : pages[m][i] = HuobiLimit
      /\ pc[m] = "done" =>
           /\ pages[m] # <<>>
           /\ \A i \in 1..Len(pages[m]) - 1 : pages[m][i] = HuobiLimit
           /\ Last(pages[m]) < HuobiLimit

\* C17 amended: a Huobi crawl requests page indices 1, 2, 3, ... in order,
\* requests the next one exactly when the page, after the records with
\* fundingTime <= lastFundingTime are removed, still has the page size, and
\* stops at the first page that has fewer records left.
C17_HuobiPagination ==
  \A m \in Markets :
    market[m].exchange = "Huobi" =>
      /\ pc[m] = "fetching" =>
           /\ pageIndex[m] = Len(pages[m]) + 1
           /\ \A i \in 1..Len(pages[m]) : pages[m][i] = HuobiLimit
           /\ Len(result[m]) = Len(pages[m]) * HuobiLimit
      /\ pc[m] = "done" =>
           /\ pages[m] # <<>>
           /\ \A i \in 1..Len(pages[m]) - 1 : pages[m][i] = HuobiLimit
           /\ Len(fundingRates[m]) - (Len(pages[m]) - 1) * HuobiLimit
                 \in 0..HuobiLimit - 1

\* a Huobi crawl ended at a returned page of the page size, of which a
\* record was removed
C17_Witness ==
  \E m \in Markets :
    /\ market[m].exchange = "Huobi"
    /\ pc[m] = "done"
    /\ Last(pages[m]) = HuobiLimit
    /\ fundingRates[m] # <<>>

\* C18: while a run goes on, the file of a market in its checkout is
\* written only by the step that ends a successful attempt, whose result is made of records that attempt
\* received; while the task fetches, fails or waits the file and the resume
\* timestamp stay as they are; a failed attempt is followed by the delay
\* and the delay by a new attempt that starts from the resume timestamp
\* with nothing accumulated; done is reached only from fetching.
C18_WriteOnceAfterSuccess ==
  [][\A m \in Markets :
       step[task[m].run] = "retrieve" /\ step'[task[m].run] = "retrieve" =>
         /\ file'[m] # file[m] => pc[m] = "fetching" /\ pc'[m] = "done"
         /\ pc'[m] = "done" /\ pc[m] # "done" =>
              /\ pc[m] = "fetching"
              /\ file'[m].parses
              /\ Range(fundingRates'[m]) \subseteq received'[m]
         /\ pc[m] = "done" => pc'[m] = "done" /\ file'[m] = file[m]
         /\ pc[m] \in Running /\ pc'[m] \in Running =>
              /\ startTime'[m] = startTime[m]
              /\ fundingRatesHistory'[m] = fundingRatesHistory[m]
         /\ pc[m] = "delay" =>
              /\ pc'[m] \in {"delay", "fetching"}
              /\ pc'[m] = "fetching" =>
                   /\ cursor'[m] = startTime[m]
                   /\ pageIndex'[m] = 1
                   /\ result'[m] = <<>>
                   /\ pages'[m] = <<>>]_vars

\* an attempt on a stored history failed after a full page, and the task
\* waits with the file as it was
C18_Witness ==
  \E m \in Markets :
    /\ pc[m] = "delay"
    /\ result[m] # <<>>
    /\ cursor[m] # startTime[m]
    /\ fundingRatesHistory[m] # <<>>
    /\ file[m].value = fundingRatesHistory[m]

\* C19: the resume timestamp can be computed from every sequence an earlier
\* run stored and pushed: the task of a swap market of a known exchange
\* whose file is absent or was written by the program is never rejected.
C19_ResumeNeverFails ==
  \A m \in Markets :
    /\ market[m].type = "Swap"
    /\ market[m].exchange \in SWAP_EXCHANGES
    /\ file[m].exists => file[m].parses
    => pc[m] # "rejected"

\* C15: a funding rate that is no number never gets into the result of a
\* successful crawl nor into a stored sequence, neither as NaN nor as the
\* null that JSON writes for it.
C15_NoNaNStored ==
  \A m \in Markets :
    /\ \A r \in Range(fundingRates[m]) : r.fundingRate # NaN
    /\ \A r \in Range(file[m].value) : r.fundingRate \notin {NaN, "null"}

\* TRUE when crawlFundingRates refuses the descriptor of market m
\* (index.ts:258, 302)
Refused(m) ==
  market[m].type # "Swap" \/ market[m].exchange \notin SWAP_EXCHANGES

\* C14: a market whose type is not Swap or whose exchange is unknown fails
\* alone: its task ends without a retry and without a file, and the promise
\* of the top-level function is not rejected by it.
C14_FailureStaysLocal ==
  \A m \in Markets :
    Refused(m) /\ pc[m] # "idle" =>
      /\ pc[m] = "rejected"
      /\ file[m] = Absent
      /\ MainPromise(task[m].run) # "rejected"

\* C16: the promise of the top-level function is settled only when no task
\* is fetching or waiting any more, and it is resolved once every task is
\* done.
C16_CompletesWhenAllDone ==
  \A r \in Runs :
    /\ MainPromise(r) # "pending" => \A m \in TasksOf(r) : pc[m] \notin Running
    /\ /\ \A e \in SWAP_EXCHANGES : lists[r][e] = "resolved"
       /\ \A m \in TasksOf(r) : pc[m] = "done"
       => MainPromise(r) = "resolved"

\* C13: against an exchange that holds the same records as in the run
\* before, the step that ends a crawl of a market whose file an earlier run
\* wrote stores the sequence that was stored already.
C13_RerunChangesNothing ==
  [][\A m \in Markets :
       file[m].exists /\ pc[m] = "fetching" /\ pc'[m] = "done" =>
         file'[m] = file[m]]_vars

\* C20: a Binance or BitMEX crawl of an exchange that honours the start
\* parameter, answers in ascending time order and caps its pages returns
\* every record the exchange holds with fundingTime >= startTime.
C20_NoGap ==
  \A m \in Markets :
    market[m].exchange \in {"Binance", "BitMEX"} /\ pc[m] = "done" =>
      \A i \in 1..Len(source[m]) :
        source[m][i].time >= startTime[m] =>
          source[m][i].time \in TimesOf(fundingRates[m])
====
